---- MODULE Spec2Model ----
(***************************************************************************)
(* A model of the ZIP image worker (src/src/workers/zipWorker.ts, the      *)
(* streaming version in lines 1-338) and of the host hook that drives it   *)
(* (src/src/hooks/useZipProcessor.ts, lines 1-168).                        *)
(*                                                                         *)
(* Conventions                                                             *)
(*  - an optional number of Rules that is left undefined is the value 0    *)
(*    (maxLongEdge, maxBytes);                                             *)
(*  - a quality is an integer number of QUnit-ths, so that the eight       *)
(*    halvings of the quality search stay exact;                           *)
(*  - a file name is a sequence of one-character strings, a file's bytes   *)
(*    are a sequence of numbers 0..255;                                    *)
(*  - Math.round(n/d) is computed on the exact quotient.                   *)
(***************************************************************************)
EXTENDS Integers, Sequences, FiniteSets, TLC

(***************************************************************************)
(* Bounds of the model.                                                    *)
(***************************************************************************)
MaxDim == 4
MaxEntries == 2
MaxMid == 2

(***************************************************************************)
(* Program constants.                                                      *)
(***************************************************************************)
MaxIter == 8
DefaultMaxCount == 200
QUnit == 25600
DefaultQuality == 20992
DefaultMinQuality == 12800

Max(a, b) == IF a >= b THEN a ELSE b

\* Math.round of the non-negative quotient n/d (ties go up).
Round(n, d) == (2 * n + d) \div (2 * d)

\* size <= (rules.maxBytes || Infinity)
WithinMaxBytes(size, maxBytes) == maxBytes = 0 \/ size <= maxBytes

(***************************************************************************)
(* targetSize, drawAndEncode and the pieces of meetSizeLimitJPEG.          *)
(***************************************************************************)
\* Mutant of targetSize: the size is left as decoded.
targetSizeUnscaled(d, maxLongEdge) == d

targetSize(d, maxLongEdge) ==
    IF maxLongEdge = 0 THEN d
    ELSE LET long == Max(d.width, d.height) IN
         IF long <= maxLongEdge THEN d
         ELSE [width  |-> Round(d.width * maxLongEdge, long),
               height |-> Round(d.height * maxLongEdge, long)]

\* rules.maxLongEdge ?? dims0.width, the second argument at the call site.
LongEdgeArg(rules, dims0) ==
    IF rules.maxLongEdge = 0 THEN dims0.width ELSE rules.maxLongEdge

\* The canvas transform after rotateCtx(ctx, w, h, orientation): a rotation
\* by a number of clockwise quarter turns, then a translation.
rotateCtx(w, h, orientation) ==
    CASE orientation = 3 -> [turns |-> 2, tx |-> w, ty |-> h]
      [] orientation = 6 -> [turns |-> 1, tx |-> h, ty |-> 0]
      [] orientation = 8 -> [turns |-> 3, tx |-> 0, ty |-> w]
      [] OTHER -> [turns |-> 0, tx |-> 0, ty |-> 0]

\* Where the transform t puts the point p = <<x, y>>.
Transformed(t, p) ==
    LET r == CASE t.turns = 1 -> <<0 - p[2], p[1]>>
               [] t.turns = 2 -> <<0 - p[1], 0 - p[2]>>
               [] t.turns = 3 -> <<p[2], 0 - p[1]>>
               [] OTHER -> p
    IN  <<r[1] + t.tx, r[2] + t.ty>>

Corners(w, h) == {<<0, 0>>, <<w, 0>>, <<0, h>>, <<w, h>>}

\* The blob drawAndEncode resolves with: the canvas is outW x outH (swapped
\* for orientation 6 and 8), drawn is where drawImage(source, 0, 0,
\* dims.width, dims.height) puts the corners of the image on it, and the
\* backend decides the size.
drawAndEncode(orientation, d, outFmt, q, size) ==
    LET swap == orientation \in {6, 8}
        outW == IF swap THEN d.height ELSE d.width
        outH == IF swap THEN d.width ELSE d.height
        t    == IF orientation \in {3, 6, 8} THEN rotateCtx(outW, outH, orientation)
                ELSE rotateCtx(outW, outH, 1)
    IN
    [type   |-> outFmt,
     size   |-> size,
     width  |-> d.width,
     height |-> d.height,
     outW   |-> outW,
     outH   |-> outH,
     drawn  |-> {Transformed(t, p) : p \in Corners(d.width, d.height)},
     q      |-> IF outFmt = "jpeg" THEN q ELSE 0]

\* A canvas of outW x outH = 0 pixels: convertToBlob rejects.
NoPixels(d) == d.width = 0 \/ d.height = 0

\* let low, high, lastGood at the entry of meetSizeLimitJPEG
SearchInit(rules) ==
    [low |-> rules.minQuality, high |-> rules.quality, lastGood |-> <<>>]

\* const q = (low + high) / 2
TrialQuality(st) == (st.low + st.high) \div 2

\* if (size <= maxBytes) { lastGood = blob; high = q; } else { low = q; }
SearchStep(st, blob, maxBytes) ==
    IF WithinMaxBytes(blob.size, maxBytes)
    THEN [st EXCEPT !.lastGood = <<blob>>, !.high = blob.q]
    ELSE [st EXCEPT !.low = blob.q]

\* if (lastGood && lastGood.size <= maxBytes) return lastGood;
HasGood(st, maxBytes) ==
    st.lastGood # <<>> /\ WithinMaxBytes(st.lastGood[1].size, maxBytes)

\* Mutant of the downscale step: the floor is 2 instead of 1.
NextDimsFloorTwo(d, rules) ==
    [width  |-> Max(2, Round(d.width * rules.ratioNum, rules.ratioDen)),
     height |-> Max(2, Round(d.height * rules.ratioNum, rules.ratioDen))]

\* const next = { width: Math.max(1, Math.round(dims.width * ratio)), ... }
NextDims(d, rules) ==
    [width  |-> Max(1, Round(d.width * rules.ratioNum, rules.ratioDen)),
     height |-> Max(1, Round(d.height * rules.ratioNum, rules.ratioDen))]

\* Mutants of the convergence test: stop only at the 1x1 floor; stop at once.
ConvergedAtFloorOnly(next, d) == d.width = 1 /\ d.height = 1
ConvergedAlways(next, d) == TRUE

\* if (next.width === dims.width && next.height === dims.height)
Converged(next, d) == next.width = d.width /\ next.height = d.height

(***************************************************************************)
(* The encoder backend (OffscreenCanvas.convertToBlob) is outside the      *)
(* program: the size of the blob it returns is its own choice.  In the     *)
(* step-by-step encoder specification every call chooses freely among      *)
(* EncSizes or throws; in the job specification an image carries one of    *)
(* the Backends, which fixes the size of each of its encodings.            *)
(***************************************************************************)
EncSizes == {4, 8}
Backends == {"small", "large", "area", "steep", "throws"}

\* The quality below which the steep backend encodes small: 0.52.
SteepQuality == (52 * QUnit) \div 100

\* A PNG encoding carries the 8 signature bytes on top; the steep backend
\* encodes small up to SteepQuality and large above it.
BackendSize(backend, outFmt, d, q) ==
    (IF outFmt = "png" THEN 8 ELSE 0) +
    (CASE backend = "small" -> 4
       [] backend = "large" -> 8
       [] backend = "steep" -> IF outFmt = "jpeg" /\ q > SteepQuality THEN 8 ELSE 4
       [] OTHER -> 3 + d.width * d.height)

\* The for loop of meetSizeLimitJPEG from iteration i on, run to its end.
RECURSIVE QualitySearch(_, _, _, _, _, _)
QualitySearch(st, i, orientation, d, rules, backend) ==
    IF i >= MaxIter THEN st
    ELSE LET q    == TrialQuality(st)
             blob == drawAndEncode(orientation, d, "jpeg", q, BackendSize(backend, "jpeg", d, q))
         IN  QualitySearch(SearchStep(st, blob, rules.maxBytes), i + 1,
                           orientation, d, rules, backend)

\* meetSizeLimitJPEG on a backend that does not throw: the blob it resolves with.
RECURSIVE meetSizeLimitJPEG(_, _, _, _)
meetSizeLimitJPEG(orientation, d, rules, backend) ==
    LET st   == QualitySearch(SearchInit(rules), 0, orientation, d, rules, backend)
        next == NextDims(d, rules)
    IN  IF HasGood(st, rules.maxBytes) THEN st.lastGood[1]
        ELSE IF Converged(next, d)
             THEN IF st.lastGood # <<>> THEN st.lastGood[1]
                  ELSE drawAndEncode(orientation, d, "jpeg", rules.minQuality,
                                     BackendSize(backend, "jpeg", d, rules.minQuality))
             ELSE meetSizeLimitJPEG(orientation, next, rules, backend)

(***************************************************************************)
(* File names: sanitizeName, the extension tests and the candidate filter. *)
(***************************************************************************)
LowerOf ==
    [c \in {"J", "P", "E", "G", "N", "A", "Q", "R"} |->
        CASE c = "J" -> "j" [] c = "P" -> "p" [] c = "E" -> "e" [] c = "G" -> "g"
          [] c = "N" -> "n" [] c = "A" -> "a" [] c = "Q" -> "q" [] OTHER -> "r"]

\* Case folding of the /i regular expressions.
Lower(c) == IF c \in DOMAIN LowerOf THEN LowerOf[c] ELSE c

LowerAll(n) == [x \in 1..Len(n) |-> Lower(n[x])]

EndsWith(n, suffix) ==
    /\ Len(n) >= Len(suffix)
    /\ SubSeq(n, Len(n) - Len(suffix) + 1, Len(n)) = suffix

StartsWith(n, prefix) ==
    /\ Len(n) >= Len(prefix)
    /\ SubSeq(n, 1, Len(prefix)) = prefix

\* /\.(jpe?g)$/i and /\.(png)$/i
isJPEGExt(n) ==
    \/ EndsWith(LowerAll(n), <<".", "j", "p", "g">>)
    \/ EndsWith(LowerAll(n), <<".", "j", "p", "e", "g">>)

isPNGExt(n) == EndsWith(LowerAll(n), <<".", "p", "n", "g">>)

\* /(jpe?g|png)$/i : the candidate filter asks for no dot.
ImageLike(n) ==
    \/ EndsWith(LowerAll(n), <<"j", "p", "g">>)
    \/ EndsWith(LowerAll(n), <<"j", "p", "e", "g">>)
    \/ EndsWith(LowerAll(n), <<"p", "n", "g">>)

\* n.split(sep): the segments between the separators, empty ones included.
RECURSIVE Split(_, _)
Split(n, sep) ==
    IF \A x \in 1..Len(n) : n[x] # sep THEN <<n>>
    ELSE LET at == CHOOSE x \in 1..Len(n) :
                       n[x] = sep /\ \A y \in 1..(x - 1) : n[y] # sep
         IN  <<SubSeq(n, 1, at - 1)>> \o Split(SubSeq(n, at + 1, Len(n)), sep)

\* n.split("/").some(part => part.startsWith(".") || part.startsWith("._"))
isHiddenish(n) ==
    LET parts == Split(n, "/") IN
    \E x \in 1..Len(parts) :
        StartsWith(parts[x], <<".">>) \/ StartsWith(parts[x], <<".", "_">>)

\* The characters of [a-zA-Z0-9._-] that occur in the model's names.
SafeChars ==
    {"a", "b", "c", "d", "e", "f", "g", "h", "i", "j", "k", "l", "m", "n", "o",
     "p", "q", "r", "s", "t", "u", "v", "w", "x", "y", "z",
     "A", "E", "G", "J", "N", "P", "Q", "R", "M", "C", "O", "S", "X",
     "0", "1", "2", "3", "4", "5", "6", "7", "8", "9", ".", "_", "-"}

\* name.replace(/[^a-zA-Z0-9._-]+/g, "_") : each run of other characters
\* becomes one underscore.
RECURSIVE ReplaceUnsafe(_)
ReplaceUnsafe(n) ==
    IF n = <<>> THEN <<>>
    ELSE IF n[1] \in SafeChars THEN <<n[1]>> \o ReplaceUnsafe(Tail(n))
    ELSE IF Len(n) >= 2 /\ n[2] \notin SafeChars THEN ReplaceUnsafe(Tail(n))
    ELSE <<"_">> \o ReplaceUnsafe(Tail(n))

sanitizeName(raw) ==
    LET slashed == [x \in 1..Len(raw) |-> IF raw[x] = "\\" THEN "/" ELSE raw[x]]
        parts   == Split(slashed, "/")
        last    == parts[Len(parts)]
        name    == IF last = <<>> THEN <<"i", "m", "a", "g", "e", ".", "j", "p", "g">>
                   ELSE last
    IN  ReplaceUnsafe(name)

\* outFmt === "jpeg" ? name.replace(/\.png$/i, ".jpg") : name
OutName(name, outFmt) ==
    IF outFmt = "jpeg" /\ isPNGExt(name)
    THEN SubSeq(name, 1, Len(name) - 4) \o <<".", "j", "p", "g">>
    ELSE name

\* The filter given to unzipSync.
Unzipped(n) ==
    /\ ~EndsWith(n, <<"/">>)
    /\ ~StartsWith(n, <<"_", "_", "M", "A", "C", "O", "S", "X", "/">>)

\* rawNames.filter(n => /(jpe?g|png)$/i.test(n) && !isHiddenish(n))
IsCandidate(n) == Unzipped(n) /\ ImageLike(n) /\ ~isHiddenish(n)

(***************************************************************************)
(* File contents: the magic numbers and detectImageType.                   *)
(***************************************************************************)
isJPEGMagic(bytes) ==
    /\ Len(bytes) > 3
    /\ bytes[1] = 255 /\ bytes[2] = 216
    /\ bytes[Len(bytes) - 1] = 255 /\ bytes[Len(bytes)] = 217

PNGSignature == <<137, 80, 78, 71, 13, 10, 26, 10>>

isPNGMagic(bytes) ==
    /\ Len(bytes) > 8
    /\ SubSeq(bytes, 1, 8) = PNGSignature

\* Mutant of detectImageType: the extension decides which magic is tried.
detectImageTypeByExt(name, bytes) ==
    IF (isJPEGExt(name) \/ ~isPNGExt(name)) /\ isJPEGMagic(bytes) THEN "jpeg"
    ELSE IF isPNGExt(name) /\ isPNGMagic(bytes) THEN "png"
    ELSE "none"

\* "none" is the null of the source.
detectImageType(name, bytes) ==
    IF (isJPEGExt(name) \/ ~isPNGExt(name)) /\ isJPEGMagic(bytes) THEN "jpeg"
    ELSE IF isPNGExt(name) /\ isPNGMagic(bytes) THEN "png"
    ELSE IF isPNGMagic(bytes) THEN "png"
    ELSE IF isJPEGMagic(bytes) THEN "jpeg"
    ELSE "none"

\* The bytes of an encoded blob: the container's framing around the
\* re-encoded image data.
BlobBytes(blob) ==
    IF blob.type = "jpeg"
    THEN <<255, 216>> \o [x \in 1..(blob.size - 4) |-> 1] \o <<255, 217>>
    ELSE PNGSignature \o [x \in 1..(blob.size - 8) |-> 1]

needProcess(bytes, d, rules) ==
    LET tooLong == rules.maxLongEdge # 0 /\ Max(d.width, d.height) > rules.maxLongEdge
        tooBig  == rules.maxBytes # 0 /\ Len(bytes) > rules.maxBytes
    IN  tooLong \/ tooBig

\* Mutant of the output format: a PNG input follows the preference too.
OutFmtAsPreferred(inFmt, formatPref) == IF formatPref = "auto" THEN inFmt ELSE formatPref

\* inFmt === "png" ? "jpeg" : formatPref === "auto" ? inFmt : formatPref
OutFmt(inFmt, formatPref) ==
    IF inFmt = "png" THEN "jpeg"
    ELSE IF formatPref = "auto" THEN inFmt
    ELSE formatPref

(***************************************************************************)
(* State.                                                                  *)
(***************************************************************************)
VARIABLES
    encPc,      \* position in meetSizeLimitJPEG: "search", "giveup", "done", "threw", "off"
    encIn,      \* the call's inputs: rules, dims0 (decoded size), orientation
    encDims,    \* dims of the current size level
    encSearch,  \* low, high, lastGood
    encIter,    \* i of the for loop
    encCalls,   \* drawAndEncode calls made at the current size level
    encPrev,    \* dims of the size level before the current one (dims0 at the first)
    encResult,  \* <<blob>> once meetSizeLimitJPEG has returned
    plan,       \* the archives and rules the user submits, in order
    jobs,       \* per job: the position and the locals of its onmessage run
    inbox,      \* jobs posted to the worker whose onmessage has not started
    posted,     \* every message the workers have posted, in order
    recv,       \* how many of them the host has received (or lost by terminate)
    workerRef,  \* the host's worker: 0 is null, n is the n-th worker created
    workerGen,  \* workers created so far
    busy, hostError, progress, list, output, chunksRef,  \* the hook's state
    detIn,      \* a file name and bytes given to detectImageType
    detOut      \* <<the type it returned>>, <<>> before the call

jobVars == <<plan, jobs, inbox, posted, recv, workerRef, workerGen,
             busy, hostError, progress, list, output, chunksRef>>

encVars == <<encPc, encIn, encDims, encSearch, encIter, encCalls, encPrev, encResult>>

detVars == <<detIn, detOut>>

vars == <<encVars, jobVars, detVars>>

(***************************************************************************)
(* The Budget Encoder, one drawAndEncode call per step.                    *)
(***************************************************************************)
Dims == [width : 1..MaxDim, height : 1..MaxDim]

\* stepDownRatio as ratioNum/ratioDen: 0.9 (the default) and 0.5.
RatioSet == {<<9, 10>>, <<1, 2>>}

EncRules ==
    {[maxCount |-> DefaultMaxCount, maxLongEdge |-> mle, maxBytes |-> mb,
      quality |-> DefaultQuality, minQuality |-> DefaultMinQuality,
      ratioNum |-> r[1], ratioDen |-> r[2], format |-> "jpeg"] :
        mle \in {0, 1, 2}, mb \in {0, 6}, r \in RatioSet}

EncIdle ==
    /\ encPc = "off"
    /\ encIn = [rules |-> CHOOSE r \in EncRules : TRUE,
                dims0 |-> [width |-> 1, height |-> 1], orientation |-> 1]
    /\ encDims = [width |-> 1, height |-> 1]
    /\ encSearch = SearchInit(encIn.rules)
    /\ encIter = 0
    /\ encCalls = 0
    /\ encPrev = [width |-> 1, height |-> 1]
    /\ encResult = <<>>

(***************************************************************************)
(* The inputs of the job specifications: archive entries and rules.        *)
(***************************************************************************)
JpegBytes(n) == <<255, 216>> \o [x \in 1..(n - 4) |-> 0] \o <<255, 217>>
PngBytes(n) == PNGSignature \o [x \in 1..(n - 8) |-> 0]

\* An archive entry, with what the codecs make of it: decodes is whether
\* createImageBitmap resolves, width x height the decoded size, orientation
\* the EXIF tag exifr finds (0: none), backend the sizes of its encodings.
File(name, bytes, decodes, w, h, orientation, backend) ==
    [name |-> name, bytes |-> bytes, decodes |-> decodes, width |-> w,
     height |-> h, orientation |-> orientation, backend |-> backend]

Files ==
    { File(<<"a", ".", "j", "p", "g">>, JpegBytes(5), TRUE, 2, 2, 0, "small"),
      File(<<"b", ".", "p", "n", "g">>, PngBytes(9), TRUE, 2, 2, 0, "small"),
      File(<<"c", ".", "j", "p", "g">>, JpegBytes(7), TRUE, 4, 2, 6, "area"),
      File(<<"d", ".", "j", "p", "g">>, <<1, 2, 3, 4>>, FALSE, 0, 0, 0, "small"),
      File(<<"e", ".", "j", "p", "e", "g">>, JpegBytes(5), FALSE, 0, 0, 0, "small"),
      File(<<"f", ".", "j", "p", "g">>, JpegBytes(5), TRUE, 2, 2, 3, "throws"),
      File(<<".", "h", "/", "g", ".", "j", "p", "g">>, JpegBytes(5), TRUE, 2, 2, 0, "small"),
      File(<<"n", ".", "t", "x", "t">>, <<1, 2, 3, 4>>, FALSE, 0, 0, 0, "small"),
      File(<<"p", "/", "q", " ", "r", ".", "P", "N", "G">>, JpegBytes(6), TRUE, 2, 3, 8, "large"),
      File(<<"m", "/">>, <<>>, FALSE, 0, 0, 0, "small"),
      File(<<"g", ".", "j", "p", "e", "g">>, PngBytes(10), TRUE, 2, 2, 0, "small"),
      File(<<"k", ".", "p", "n", "g">>, PngBytes(9), FALSE, 0, 0, 0, "small"),
      File(<<"_", "_", "M", "A", "C", "O", "S", "X", "/", "a", ".", "j", "p", "g">>,
           JpegBytes(5), TRUE, 2, 2, 0, "small"),
      File(<<"x", "j", "p", "g">>, JpegBytes(5), TRUE, 2, 2, 0, "small") }

\* The entries object of unzipSync has one key per name.
DistinctNames(entries) ==
    \A x, y \in 1..Len(entries) : x # y => entries[x].name # entries[y].name

SeqsUpTo(S, n) == UNION {[1..m -> S] : m \in 0..n}

ArchivesOf(S) ==
    {[readable |-> TRUE, entries |-> e] : e \in {q \in SeqsUpTo(S, MaxEntries) : DistinctNames(q)}}
    \cup {[readable |-> FALSE, entries |-> <<>>]}

Rules(maxCount, maxLongEdge, maxBytes, ratio, format) ==
    [maxCount |-> maxCount, maxLongEdge |-> maxLongEdge, maxBytes |-> maxBytes,
     quality |-> DefaultQuality, minQuality |-> DefaultMinQuality,
     ratioNum |-> ratio[1], ratioDen |-> ratio[2], format |-> format]

RuleSet ==
    { Rules(DefaultMaxCount, 3, 6, <<9, 10>>, "jpeg"),
      Rules(1, 0, 0, <<1, 2>>, "auto"),
      Rules(DefaultMaxCount, 0, 6, <<1, 2>>, "png") }

Inputs == [archive : ArchivesOf(Files), rules : RuleSet]

\* The inputs of the runs with two jobs.
SmallFiles ==
    {f \in Files : f.name \in {<<"a", ".", "j", "p", "g">>, <<"d", ".", "j", "p", "g">>}}

SmallInputs ==
    [archive : ArchivesOf(SmallFiles), rules : {Rules(DefaultMaxCount, 3, 6, <<9, 10>>, "jpeg")}]

JobIds == {1, 2}

NewZip == [files |-> <<>>, flushed |-> 0, ended |-> FALSE, dead |-> FALSE]

NoJob ==
    [pc |-> "none", worker |-> 0, names |-> <<>>, k |-> 0, processed |-> 0,
     orientation |-> 0, bitmaps |-> 0, opened |-> FALSE, zip |-> NewZip,
     sentDone |-> FALSE, since |-> 0, cut |-> 0]

JobIdle ==
    /\ jobs = [j \in JobIds |-> NoJob]
    /\ inbox = <<>>
    /\ posted = <<>>
    /\ recv = 0
    /\ workerRef = 0
    /\ workerGen = 0
    /\ busy = FALSE
    /\ hostError = FALSE
    /\ progress = [processed |-> 0, total |-> 0]
    /\ list = <<>>
    /\ output = <<>>
    /\ chunksRef = <<>>

(***************************************************************************)
(* The inputs of the classifier specification: a name and the bytes of a   *)
(* file, built as a start, up to MaxMid bytes in between, and an end.      *)
(***************************************************************************)
DetNames ==
    { <<"a", ".", "j", "p", "g">>, <<"a", ".", "J", "P", "E", "G">>,
      <<"a", ".", "p", "n", "g">>, <<"a", ".", "P", "N", "G">>,
      <<"a", ".", "t", "x", "t">>, <<"a", "p", "n", "g">> }

DetStarts == {<<>>, <<255>>, <<255, 216>>, SubSeq(PNGSignature, 1, 7), PNGSignature}

DetEnds == {<<>>, <<217>>, <<255, 217>>}

DetBytes ==
    {a \o m \o z : a \in DetStarts, m \in SeqsUpTo({0, 255}, MaxMid), z \in DetEnds}

DetInputs == [name : DetNames, bytes : DetBytes]

DetIdle ==
    /\ detIn = [name |-> <<>>, bytes |-> <<>>]
    /\ detOut = <<>>

\* The call meetSizeLimitJPEG(bitmap, orientation, initialDims, rules) of the
\* orchestrator, with initialDims = targetSize(dims0, rules.maxLongEdge ?? dims0.width).
InitEnc ==
    /\ encPc = "search"
    /\ encIn \in [rules : EncRules, dims0 : Dims, orientation : {1, 6}]
    /\ encDims = targetSize(encIn.dims0, LongEdgeArg(encIn.rules, encIn.dims0))
    /\ encSearch = SearchInit(encIn.rules)
    /\ encIter = 0
    /\ encCalls = 0
    /\ encPrev = encIn.dims0
    /\ encResult = <<>>
    /\ plan = <<>>
    /\ JobIdle
    /\ DetIdle

\* Mutant of the loop: no cap on the iterations.
EncTrialUncapped ==
    /\ UNCHANGED <<jobVars, detVars>>
    /\ encPc = "search"
    /\ ~NoPixels(encDims)
    /\ \E size \in EncSizes :
        LET blob == drawAndEncode(encIn.orientation, encDims, "jpeg",
                                  TrialQuality(encSearch), size)
        IN  encSearch' = SearchStep(encSearch, blob, encIn.rules.maxBytes)
    /\ encIter' = encIter + 1
    /\ encCalls' = encCalls + 1
    /\ UNCHANGED <<encPc, encIn, encDims, encPrev, encResult>>

\* One iteration of the for loop: the awaited drawAndEncode resolves.
EncTrial ==
    /\ UNCHANGED <<jobVars, detVars>>
    /\ encPc = "search"
    /\ encIter < MaxIter
    /\ ~NoPixels(encDims)
    /\ \E size \in EncSizes :
        LET blob == drawAndEncode(encIn.orientation, encDims, "jpeg",
                                  TrialQuality(encSearch), size)
        IN  encSearch' = SearchStep(encSearch, blob, encIn.rules.maxBytes)
    /\ encIter' = encIter + 1
    /\ encCalls' = encCalls + 1
    /\ UNCHANGED <<encPc, encIn, encDims, encPrev, encResult>>

\* An awaited drawAndEncode rejects (no OffscreenCanvas, convertToBlob fails):
\* meetSizeLimitJPEG rejects with it.
EncThrow ==
    /\ UNCHANGED <<jobVars, detVars>>
    /\ encPc \in {"search", "giveup"}
    /\ encPc = "search" => encIter < MaxIter
    /\ encPc' = "threw"
    /\ UNCHANGED <<encIn, encDims, encSearch, encIter, encCalls, encPrev, encResult>>

\* After the loop: return lastGood, give up at unchanged dims, or recurse.
EncAfterLoop ==
    /\ UNCHANGED <<jobVars, detVars>>
    /\ encPc = "search"
    /\ encIter = MaxIter
    /\ LET next == NextDims(encDims, encIn.rules) IN
       IF HasGood(encSearch, encIn.rules.maxBytes)
       THEN /\ encPc' = "done"
            /\ encResult' = <<encSearch.lastGood[1]>>
            /\ UNCHANGED <<encDims, encSearch, encIter, encCalls, encPrev>>
       ELSE IF Converged(next, encDims)
       THEN IF encSearch.lastGood # <<>>
            THEN /\ encPc' = "done"
                 /\ encResult' = <<encSearch.lastGood[1]>>
                 /\ UNCHANGED <<encDims, encSearch, encIter, encCalls, encPrev>>
            ELSE /\ encPc' = "giveup"
                 /\ UNCHANGED <<encDims, encSearch, encIter, encCalls, encPrev, encResult>>
       ELSE /\ encDims' = next
            /\ encSearch' = SearchInit(encIn.rules)
            /\ encIter' = 0
            /\ encCalls' = 0
            /\ encPrev' = encDims
            /\ UNCHANGED <<encPc, encResult>>
    /\ UNCHANGED encIn

\* return lastGood ?? (await drawAndEncode(..., rules.minQuality ?? 0.5))
EncGiveUp ==
    /\ UNCHANGED <<jobVars, detVars>>
    /\ encPc = "giveup"
    /\ \E size \in EncSizes :
        encResult' = <<drawAndEncode(encIn.orientation, encDims, "jpeg",
                                     encIn.rules.minQuality, size)>>
    /\ encCalls' = encCalls + 1
    /\ encPc' = "done"
    /\ UNCHANGED <<encIn, encDims, encSearch, encIter, encPrev>>

NextEnc == EncTrial \/ EncThrow \/ EncAfterLoop \/ EncGiveUp

SpecEnc == InitEnc /\ [][NextEnc]_vars

\* The awaited backend call always settles, so a pending step is taken.
FairSpecEnc == SpecEnc /\ WF_vars(NextEnc)

(***************************************************************************)
(* Messages of the worker.  job and cand are not in the message itself:    *)
(* they record the job that posted it and the candidate (index in names)   *)
(* it is about, 0 for a job-level message.                                 *)
(* Likewise the field since of a job is no state of the program: it        *)
(* records how many messages the host had received when processZip         *)
(* started the job, and cut how many when cancel terminated its worker.    *)
(***************************************************************************)
WorkerName == <<"(", "w", "o", "r", "k", "e", "r", ")">>
ZipperName == <<"(", "z", "i", "p", "p", "e", "r", ")">>

OverallMsg(j, processed, total) ==
    [job |-> j, type |-> "overall", cand |-> 0, processed |-> processed, total |-> total]

OutcomeMsg(j, k, type, name, size, originalSize, inFmt, outFmt) ==
    [job |-> j, type |-> type, cand |-> k, name |-> name, size |-> size,
     originalSize |-> originalSize, inFmt |-> inFmt, outFmt |-> outFmt]

FailMsg(j, k, type, name, reason) ==
    [job |-> j, type |-> type, cand |-> k, name |-> name, reason |-> reason]

ChunkMsg(j, chunk) == [job |-> j, type |-> "zip-chunk", cand |-> 0, chunk |-> chunk]

DoneMsg(j) == [job |-> j, type |-> "done-stream", cand |-> 0]

NoChunk == [kind |-> "none", len |-> 0]

(***************************************************************************)
(* The Streaming Archive Writer (fflate Zip with AsyncZipDeflate files),   *)
(* by its contract: a file added is compressed in the background and its   *)
(* bytes are handed to the callback later, files in the order added; the   *)
(* callback gets final = true once, with the directory, after end() and    *)
(* after the last file; an error terminates the writer, which from then on *)
(* answers add and end with an error.                                      *)
(***************************************************************************)
\* Mutants of the zipper callback: no return after reporting err; final ignored.
ZipperCallbackNoReturn(j, jr, msgs, err, chunk, final) ==
    LET told == IF err THEN Append(msgs, FailMsg(j, 0, "error", ZipperName, "zip"))
                ELSE msgs
        sent == IF chunk.len > 0 THEN Append(told, ChunkMsg(j, chunk)) ELSE told
    IN  IF final /\ ~jr.sentDone
        THEN [jr |-> [jr EXCEPT !.sentDone = TRUE], msgs |-> Append(sent, DoneMsg(j))]
        ELSE [jr |-> jr, msgs |-> sent]

ZipperCallbackIgnoringFinal(j, jr, msgs, err, chunk, final) ==
    IF err
    THEN [jr |-> jr, msgs |-> Append(msgs, FailMsg(j, 0, "error", ZipperName, "zip"))]
    ELSE LET sent == IF chunk.len > 0 THEN Append(msgs, ChunkMsg(j, chunk)) ELSE msgs
         IN  [jr |-> jr, msgs |-> Append(sent, DoneMsg(j))]

\* The callback given to new Zip(...): jr is the job's state, msgs what the
\* running step has posted so far.
ZipperCallback(j, jr, msgs, err, chunk, final) ==
    IF err
    THEN [jr |-> jr, msgs |-> Append(msgs, FailMsg(j, 0, "error", ZipperName, "zip"))]
    ELSE LET sent == IF chunk.len > 0 THEN Append(msgs, ChunkMsg(j, chunk)) ELSE msgs
         IN  IF final /\ ~jr.sentDone
             THEN [jr |-> [jr EXCEPT !.sentDone = TRUE], msgs |-> Append(sent, DoneMsg(j))]
             ELSE [jr |-> jr, msgs |-> sent]

FileChunk(f) == [kind |-> "file", len |-> Len(f.data) + Len(f.name), file |-> f]

DirChunk(files) ==
    [kind |-> "dir", len |-> 22 + Len(files),
     names |-> [x \in 1..Len(files) |-> files[x].name]]

\* Mutant of appendFileToZip: the entry gets the candidate's raw name.
appendFileToZipRawName(j, jr, msgs, k, name, data) ==
    [jr |-> [jr EXCEPT !.zip.files = Append(@, [name |-> jr.names[k].name,
                                                data |-> data, cand |-> k])],
     msgs |-> msgs]

\* Mutant of appendFileToZip: the file is put before the ones already added.
appendFileToZipFirst(j, jr, msgs, k, name, data) ==
    [jr |-> [jr EXCEPT !.zip.files = <<[name |-> name, data |-> data, cand |-> k]>> \o @],
     msgs |-> msgs]

\* Mutant of appendFileToZip: the file is never added.
appendFileToZipDropped(j, jr, msgs, k, name, data) == [jr |-> jr, msgs |-> msgs]

\* appendFileToZip: zipper.add(file); file.push(data, true)
appendFileToZip(j, jr, msgs, k, name, data) ==
    IF jr.zip.dead
    THEN ZipperCallback(j, jr, msgs, TRUE, NoChunk, FALSE)
    ELSE [jr |-> [jr EXCEPT !.zip.files = Append(@, [name |-> name, data |-> data, cand |-> k])],
          msgs |-> msgs]

\* zipper.end()
ZipperEnd(j, jr, msgs) ==
    LET ended == [jr EXCEPT !.zip.ended = TRUE] IN
    IF jr.zip.dead THEN ZipperCallback(j, ended, msgs, TRUE, NoChunk, TRUE)
    ELSE IF jr.zip.flushed = Len(jr.zip.files)
    THEN ZipperCallback(j, ended, msgs, FALSE, DirChunk(jr.zip.files), TRUE)
    ELSE [jr |-> ended, msgs |-> msgs]

(***************************************************************************)
(* The onmessage handler of the worker, cut at its awaits.                 *)
(***************************************************************************)
Candidates(archive) == SelectSeq(archive.entries, LAMBDA f : IsCandidate(f.name))

\* Mutant of the loop head: an unsupported entry ends the loop.
RECURSIVE LoopFromStopAtSkip(_, _, _)
LoopFromStopAtSkip(j, jr, msgs) ==
    IF jr.k > Len(jr.names)
    THEN LET z == ZipperEnd(j, jr, msgs)
         IN  [jr |-> [z.jr EXCEPT !.pc = "ended"], msgs |-> z.msgs]
    ELSE LET f     == jr.names[jr.k]
             name  == sanitizeName(f.name)
             inFmt == detectImageType(name, f.bytes)
         IN  IF inFmt = "none"
             THEN [jr |-> [jr EXCEPT !.pc = "ended"],
                   msgs |-> Append(msgs, FailMsg(j, jr.k, "skip", name, "unsupported"))]
             ELSE [jr |-> [jr EXCEPT !.pc = IF inFmt = "jpeg" THEN "exif" ELSE "decode",
                                     !.orientation = 0],
                   msgs |-> msgs]

\* The for loop from candidate jr.k on, up to its next await: unsupported
\* entries are skipped on the way; after the last candidate, zipper.end().
RECURSIVE LoopFrom(_, _, _)
LoopFrom(j, jr, msgs) ==
    IF jr.k > Len(jr.names)
    THEN LET z == ZipperEnd(j, jr, msgs)
         IN  [jr |-> [z.jr EXCEPT !.pc = "ended"], msgs |-> z.msgs]
    ELSE LET f     == jr.names[jr.k]
             name  == sanitizeName(f.name)
             inFmt == detectImageType(name, f.bytes)
         IN  IF inFmt = "none"
             THEN LoopFrom(j, [jr EXCEPT !.k = @ + 1],
                           Append(msgs, FailMsg(j, jr.k, "skip", name, "unsupported")))
             ELSE [jr |-> [jr EXCEPT !.pc = IF inFmt = "jpeg" THEN "exif" ELSE "decode",
                                     !.orientation = 0],
                   msgs |-> msgs]

\* Mutant of the loop's end: the overall count is the candidate's index.
NextCandidateByIndex(j, jr, msgs) ==
    LET counted == [jr EXCEPT !.processed = jr.k, !.k = @ + 1] IN
    LoopFrom(j, counted,
             Append(msgs, OverallMsg(j, counted.processed, Len(jr.names))))

\* processed++; postProgress(overall); then the next iteration.
NextCandidate(j, jr, msgs) ==
    LET counted == [jr EXCEPT !.processed = @ + 1, !.k = @ + 1] IN
    LoopFrom(j, counted,
             Append(msgs, OverallMsg(j, counted.processed, Len(jr.names))))

\* Mutant of the start: no return after the maxCount error.
StartJobNoReturn(j, jr, in) ==
    LET names == Candidates(in.archive) IN
    LoopFrom(j, [jr EXCEPT !.names = names, !.k = 1, !.opened = TRUE],
             (IF Len(names) > in.rules.maxCount
              THEN <<FailMsg(j, 0, "error", WorkerName, "maxCount")>> ELSE <<>>)
             \o <<OverallMsg(j, 0, Len(names))>>)

\* Mutant of the start: an archive that cannot be read counts as empty.
StartJobUnreadableAsEmpty(j, jr, in) ==
    LET names == IF in.archive.readable THEN Candidates(in.archive) ELSE <<>> IN
    IF Len(names) > in.rules.maxCount
    THEN [jr |-> [jr EXCEPT !.pc = "ended"],
          msgs |-> <<FailMsg(j, 0, "error", WorkerName, "maxCount")>>]
    ELSE LoopFrom(j, [jr EXCEPT !.names = names, !.k = 1, !.opened = TRUE],
                  <<OverallMsg(j, 0, Len(names))>>)

\* The handler from its start to its first await.
StartJob(j, jr, in) ==
    IF ~in.archive.readable
    THEN [jr |-> [jr EXCEPT !.pc = "ended"],
          msgs |-> <<FailMsg(j, 0, "error", WorkerName, "unzip")>>]
    ELSE LET names == Candidates(in.archive) IN
         IF Len(names) > in.rules.maxCount
         THEN [jr |-> [jr EXCEPT !.pc = "ended"],
               msgs |-> <<FailMsg(j, 0, "error", WorkerName, "maxCount")>>]
         ELSE LoopFrom(j, [jr EXCEPT !.names = names, !.k = 1, !.opened = TRUE],
                       <<OverallMsg(j, 0, Len(names))>>)

\* The first drawAndEncode of the entry rejects: the backend fails, or the
\* canvas has no pixels.
EncodeRejects(f, d) == f.backend = "throws" \/ NoPixels(d)

\* The blob of the try block: meetSizeLimitJPEG or drawAndEncode(..., "png").
FinalBlob(f, orientation, rules) ==
    LET dims0       == [width |-> f.width, height |-> f.height]
        inFmt       == detectImageType(sanitizeName(f.name), f.bytes)
        outFmt      == OutFmt(inFmt, rules.format)
        initialDims == targetSize(dims0, LongEdgeArg(rules, dims0))
    IN  IF outFmt = "jpeg"
        THEN meetSizeLimitJPEG(orientation, initialDims, rules, f.backend)
        ELSE drawAndEncode(orientation, initialDims, "png", 0,
                           BackendSize(f.backend, "png", initialDims, 0))

\* Mutant of the entry's end: the bitmap is closed after the try block only,
\* not in a finally.
FinishEntryCloseOnSuccess(j, jr, rules) ==
    LET f           == jr.names[jr.k]
        name        == sanitizeName(f.name)
        dims0       == [width |-> f.width, height |-> f.height]
        inFmt       == detectImageType(name, f.bytes)
        needs       == needProcess(f.bytes, dims0, rules)
        outFmt      == OutFmt(inFmt, rules.format)
        initialDims == targetSize(dims0, LongEdgeArg(rules, dims0))
        closed      == [jr EXCEPT !.bitmaps = @ - 1]
    IN  IF EncodeRejects(f, initialDims)
        THEN NextCandidate(j, jr, <<FailMsg(j, jr.k, "error", name, "process")>>)
        ELSE LET finalBlob    == FinalBlob(f, jr.orientation, rules)
                 outName      == OutName(name, outFmt)
                 z            == appendFileToZip(j, closed, <<>>, jr.k, outName,
                                                 BlobBytes(finalBlob))
                 didTranscode == outFmt # inFmt \/ needs
             IN  NextCandidate(j, z.jr,
                    Append(z.msgs,
                           OutcomeMsg(j, jr.k,
                                      IF didTranscode THEN "processed" ELSE "kept",
                                      outName, finalBlob.size, Len(f.bytes), inFmt, outFmt)))

\* Lines 279-332 once the encode has settled: the try block, its catch and
\* finally, and the overall progress.
FinishEntry(j, jr, rules) ==
    LET f           == jr.names[jr.k]
        name        == sanitizeName(f.name)
        dims0       == [width |-> f.width, height |-> f.height]
        inFmt       == detectImageType(name, f.bytes)
        needs       == needProcess(f.bytes, dims0, rules)
        outFmt      == OutFmt(inFmt, rules.format)
        initialDims == targetSize(dims0, LongEdgeArg(rules, dims0))
        closed      == [jr EXCEPT !.bitmaps = @ - 1]
    IN  IF EncodeRejects(f, initialDims)
        THEN NextCandidate(j, closed, <<FailMsg(j, jr.k, "error", name, "process")>>)
        ELSE LET finalBlob    == FinalBlob(f, jr.orientation, rules)
                 outName      == OutName(name, outFmt)
                 z            == appendFileToZip(j, closed, <<>>, jr.k, outName,
                                                 BlobBytes(finalBlob))
                 didTranscode == outFmt # inFmt \/ needs
             IN  NextCandidate(j, z.jr,
                    Append(z.msgs,
                           OutcomeMsg(j, jr.k,
                                      IF didTranscode THEN "processed" ELSE "kept",
                                      outName, finalBlob.size, Len(f.bytes), inFmt, outFmt)))

Running(j) == jobs[j].pc \in {"exif", "decode", "encode"}

\* The worker takes the next job message: onmessage runs to its first await.
WorkerStart(j) ==
    /\ inbox # <<>>
    /\ Head(inbox) = j
    /\ LET r == StartJob(j, jobs[j], plan[j]) IN
        /\ jobs' = [jobs EXCEPT ![j] = r.jr]
        /\ posted' = posted \o r.msgs
    /\ inbox' = Tail(inbox)
    /\ UNCHANGED <<plan, recv, workerRef, workerGen, busy, hostError, progress,
                   list, output, chunksRef, encVars, detVars>>

\* exifr.orientation settles (a rejection leaves orientation undefined);
\* decodeToBitmap is awaited next.
AfterExif(j) ==
    /\ jobs[j].pc = "exif"
    /\ jobs' = [jobs EXCEPT ![j].pc = "decode",
                            ![j].orientation = jobs[j].names[jobs[j].k].orientation]
    /\ UNCHANGED <<plan, inbox, posted, recv, workerRef, workerGen, busy, hostError,
                   progress, list, output, chunksRef, encVars, detVars>>

\* decodeToBitmap settles: on rejection the entry is an error and the loop
\* continues; else the encode is awaited.
AfterDecode(j) ==
    /\ jobs[j].pc = "decode"
    /\ LET jr == jobs[j]
           f  == jr.names[jr.k]
           r  == IF f.decodes
                 THEN [jr |-> [jr EXCEPT !.pc = "encode", !.bitmaps = @ + 1], msgs |-> <<>>]
                 ELSE LoopFrom(j, [jr EXCEPT !.k = @ + 1],
                               <<FailMsg(j, jr.k, "error", sanitizeName(f.name), "decode")>>)
       IN  /\ jobs' = [jobs EXCEPT ![j] = r.jr]
           /\ posted' = posted \o r.msgs
    /\ UNCHANGED <<plan, inbox, recv, workerRef, workerGen, busy, hostError,
                   progress, list, output, chunksRef, encVars, detVars>>

\* The encode (and finalBlob.arrayBuffer()) settles.
AfterEncode(j) ==
    /\ jobs[j].pc = "encode"
    /\ LET r == FinishEntry(j, jobs[j], plan[j].rules) IN
        /\ jobs' = [jobs EXCEPT ![j] = r.jr]
        /\ posted' = posted \o r.msgs
    /\ UNCHANGED <<plan, inbox, recv, workerRef, workerGen, busy, hostError,
                   progress, list, output, chunksRef, encVars, detVars>>

ZipAlive(j) ==
    /\ jobs[j].pc \in {"exif", "decode", "encode", "ended"}
    /\ ~jobs[j].zip.dead
    /\ jobs[j].zip.flushed < Len(jobs[j].zip.files)

\* The writer hands over the next file's compressed bytes and, if end() was
\* called and this was the last file, the directory with final = true.
ZipFlush(j) ==
    /\ ZipAlive(j)
    /\ LET jr   == jobs[j]
           n    == jr.zip.flushed + 1
           c1   == ZipperCallback(j, [jr EXCEPT !.zip.flushed = n], <<>>, FALSE,
                                  FileChunk(jr.zip.files[n]), FALSE)
           r    == IF jr.zip.ended /\ n = Len(jr.zip.files)
                   THEN ZipperCallback(j, c1.jr, c1.msgs, FALSE, DirChunk(jr.zip.files), TRUE)
                   ELSE c1
       IN  /\ jobs' = [jobs EXCEPT ![j] = r.jr]
           /\ posted' = posted \o r.msgs
    /\ UNCHANGED <<plan, inbox, recv, workerRef, workerGen, busy, hostError,
                   progress, list, output, chunksRef, encVars, detVars>>

\* Compressing a file fails: the writer reports the error and terminates.
ZipFail(j) ==
    /\ ZipAlive(j)
    /\ LET r == ZipperCallback(j, [jobs[j] EXCEPT !.zip.dead = TRUE], <<>>, TRUE,
                               NoChunk, FALSE)
       IN  /\ jobs' = [jobs EXCEPT ![j] = r.jr]
           /\ posted' = posted \o r.msgs
    /\ UNCHANGED <<plan, inbox, recv, workerRef, workerGen, busy, hostError,
                   progress, list, output, chunksRef, encVars, detVars>>

(***************************************************************************)
(* The host hook useZipProcessor.                                          *)
(***************************************************************************)
\* processZip up to its await: reset(), setBusy(true), ensureWorker().
ProcessZip(j) ==
    /\ j <= Len(plan)
    /\ jobs[j].pc = "none"
    /\ \A i \in JobIds : i < j => jobs[i].pc # "none"
    /\ busy' = TRUE
    /\ hostError' = FALSE
    /\ progress' = [processed |-> 0, total |-> 0]
    /\ list' = <<>>
    /\ output' = <<>>
    /\ chunksRef' = <<>>
    /\ IF workerRef = 0
       THEN /\ workerGen' = workerGen + 1
            /\ workerRef' = workerGen + 1
       ELSE UNCHANGED <<workerGen, workerRef>>
    /\ jobs' = [jobs EXCEPT ![j].pc = "reading", ![j].worker = workerRef',
                            ![j].since = recv]
    /\ UNCHANGED <<plan, inbox, posted, recv, encVars, detVars>>

\* zipFile.arrayBuffer() resolves: w.postMessage(...) to the worker that
\* ensureWorker returned, which cancel may have terminated meanwhile.
PostJob(j) ==
    /\ jobs[j].pc = "reading"
    /\ IF jobs[j].worker = workerRef
       THEN /\ jobs' = [jobs EXCEPT ![j].pc = "queued"]
            /\ inbox' = Append(inbox, j)
       ELSE /\ jobs' = [jobs EXCEPT ![j].pc = "lost"]
            /\ UNCHANGED inbox
    /\ UNCHANGED <<plan, posted, recv, workerRef, workerGen, busy, hostError,
                   progress, list, output, chunksRef, encVars, detVars>>

\* zipFile.arrayBuffer() rejects: the catch of processZip.
ReadFail(j) ==
    /\ jobs[j].pc = "reading"
    /\ jobs' = [jobs EXCEPT ![j].pc = "unread"]
    /\ busy' = FALSE
    /\ hostError' = TRUE
    /\ UNCHANGED <<plan, inbox, posted, recv, workerRef, workerGen,
                   progress, list, output, chunksRef, encVars, detVars>>

\* worker.onmessage of the host, for the next message in flight.
HostReceive ==
    /\ recv < Len(posted)
    /\ recv' = recv + 1
    /\ LET msg == posted[recv + 1] IN
       CASE msg.type = "zip-chunk" ->
              /\ chunksRef' = IF msg.chunk.len > 0 THEN Append(chunksRef, msg.chunk)
                              ELSE chunksRef
              /\ UNCHANGED <<busy, hostError, progress, list, output>>
         [] msg.type = "done-stream" ->
              /\ output' = <<chunksRef>>
              /\ chunksRef' = <<>>
              /\ busy' = FALSE
              /\ hostError' = FALSE
              /\ UNCHANGED <<progress, list>>
         [] msg.type = "overall" ->
              /\ progress' = [processed |-> msg.processed, total |-> msg.total]
              /\ UNCHANGED <<busy, hostError, list, output, chunksRef>>
         [] OTHER ->
              /\ list' = Append(list, [name |-> msg.name, status |-> msg.type])
              /\ UNCHANGED <<busy, hostError, progress, output, chunksRef>>
    /\ UNCHANGED <<plan, jobs, inbox, posted, workerRef, workerGen, encVars, detVars>>

\* cancel: terminate the worker, with everything it runs and has in flight.
Cancel ==
    /\ workerRef # 0
    /\ jobs' = [j \in JobIds |->
                  IF jobs[j].worker = workerRef /\ jobs[j].pc \notin {"none", "reading", "unread", "lost"}
                  THEN [jobs[j] EXCEPT !.pc = "killed", !.cut = recv] ELSE jobs[j]]
    /\ inbox' = <<>>
    /\ recv' = Len(posted)
    /\ workerRef' = 0
    /\ busy' = FALSE
    /\ UNCHANGED <<plan, posted, workerGen, hostError, progress, list, output,
                   chunksRef, encVars, detVars>>

(***************************************************************************)
(* The job specifications: one job with any of the inputs (Spec), two jobs *)
(* with the small inputs (SpecJobs).                                       *)
(***************************************************************************)
Init ==
    /\ EncIdle
    /\ JobIdle
    /\ DetIdle
    /\ plan \in {<<in>> : in \in Inputs}

InitJobs ==
    /\ EncIdle
    /\ JobIdle
    /\ DetIdle
    /\ plan \in {<<a, b>> : a \in SmallInputs, b \in SmallInputs}

Next ==
    \/ \E j \in JobIds : ProcessZip(j)
    \/ \E j \in JobIds : PostJob(j)
    \/ \E j \in JobIds : ReadFail(j)
    \/ \E j \in JobIds : WorkerStart(j)
    \/ \E j \in JobIds : AfterExif(j)
    \/ \E j \in JobIds : AfterDecode(j)
    \/ \E j \in JobIds : AfterEncode(j)
    \/ \E j \in JobIds : ZipFlush(j)
    \/ \E j \in JobIds : ZipFail(j)
    \/ HostReceive
    \/ Cancel

Spec == Init /\ [][Next]_vars

SpecJobs == InitJobs /\ [][Next]_vars

(***************************************************************************)
(* The classifier specification: detectImageType applied to one input.     *)
(***************************************************************************)
InitDetect ==
    /\ EncIdle
    /\ JobIdle
    /\ plan = <<>>
    /\ detIn \in DetInputs
    /\ detOut = <<>>

\* const inFmt = detectImageType(name, fileU8)
Detect ==
    /\ detOut = <<>>
    /\ detIn.name # <<>>
    /\ detOut' = <<detectImageType(detIn.name, detIn.bytes)>>
    /\ UNCHANGED <<detIn, encVars, jobVars>>

NextDetect == Detect

SpecDetect == InitDetect /\ [][NextDetect]_vars

(***************************************************************************)
(* The budget specification: one meetSizeLimitJPEG call, run to its end on *)
(* a backend that fixes the size of every encoding.                        *)
(***************************************************************************)
InitBudget ==
    /\ encPc = "budget"
    /\ encIn \in [rules : EncRules, dims0 : Dims, orientation : {1, 6},
                  backend : Backends]
    /\ encDims = targetSize(encIn.dims0, LongEdgeArg(encIn.rules, encIn.dims0))
    /\ encSearch = SearchInit(encIn.rules)
    /\ encIter = 0
    /\ encCalls = 0
    /\ encPrev = encIn.dims0
    /\ encResult = <<>>
    /\ plan = <<>>
    /\ JobIdle
    /\ DetIdle

\* finalBlob = await meetSizeLimitJPEG(bitmap, orientation, initialDims, rules)
Budget ==
    /\ encPc = "budget"
    /\ encIn.backend # "throws"
    /\ ~NoPixels(encDims)
    /\ encResult' = <<meetSizeLimitJPEG(encIn.orientation, encDims, encIn.rules,
                                        encIn.backend)>>
    /\ encPc' = "done"
    /\ UNCHANGED <<encIn, encDims, encSearch, encIter, encCalls, encPrev,
                   jobVars, detVars>>

\* The first drawAndEncode rejects, and meetSizeLimitJPEG with it.
BudgetReject ==
    /\ encPc = "budget"
    /\ encIn.backend = "throws" \/ NoPixels(encDims)
    /\ encPc' = "threw"
    /\ UNCHANGED <<encIn, encDims, encSearch, encIter, encCalls, encPrev,
                   encResult, jobVars, detVars>>

NextBudget == Budget \/ BudgetReject

SpecBudget == InitBudget /\ [][NextBudget]_vars

(***************************************************************************)
(* The drawing specification: one drawAndEncode call on any dims and       *)
(* orientation.                                                            *)
(***************************************************************************)
InitDraw ==
    /\ encPc = "draw"
    /\ encIn \in [rules : {CHOOSE r \in EncRules : TRUE}, dims0 : Dims,
                  orientation : {1, 3, 6, 8}]
    /\ encDims = encIn.dims0
    /\ encSearch = SearchInit(encIn.rules)
    /\ encIter = 0
    /\ encCalls = 0
    /\ encPrev = encIn.dims0
    /\ encResult = <<>>
    /\ plan = <<>>
    /\ JobIdle
    /\ DetIdle

\* await drawAndEncode(bitmap, orientation, dims, outFmt, quality)
Draw ==
    /\ encPc = "draw"
    /\ \E outFmt \in {"jpeg", "png"}, size \in EncSizes :
        encResult' = <<drawAndEncode(encIn.orientation, encDims, outFmt,
                                     DefaultQuality, size)>>
    /\ encCalls' = encCalls + 1
    /\ encPc' = "done"
    /\ UNCHANGED <<encIn, encDims, encSearch, encIter, encPrev, jobVars, detVars>>

NextDraw == Draw

SpecDraw == InitDraw /\ [][NextDraw]_vars

(***************************************************************************)
(* Claims about the Budget Encoder (SpecEnc, FairSpecEnc).                 *)
(***************************************************************************)
EncOverBudget ==
    /\ encPc = "done"
    /\ ~WithinMaxBytes(encResult[1].size, encIn.rules.maxBytes)

EncResultDims == [width |-> encResult[1].width, height |-> encResult[1].height]

\* C2 as stated: a returned encoding is within maxBytes or was produced at
\* 1x1; the search never stops over budget at larger dimensions.
C2_BudgetOrFloor ==
    EncOverBudget => EncResultDims = [width |-> 1, height |-> 1]

\* C2 amended: a returned encoding is within maxBytes or was produced at
\* dimensions that the downscale step leaves unchanged
\* (max(1, round(w * ratio)) = w and max(1, round(h * ratio)) = h), which for
\* a ratio of 0.9 is every size up to 5x5 and not only 1x1.
C2_BudgetOrFixedPoint ==
    EncOverBudget => NextDims(EncResultDims, encIn.rules) = EncResultDims

\* C2 witness: the search has returned an over-budget encoding at dimensions
\* larger than 1x1.
C2_Witness ==
    /\ EncOverBudget
    /\ EncResultDims.width > 1
    /\ EncResultDims.height > 1

EncReturned == encPc \in {"done", "threw"}

\* C3: for a decoded image of at least 1x1 and any sizes the backend
\* returns, meetSizeLimitJPEG returns (or rejects) after finitely many encode
\* calls.
C3_EncoderTerminates == <>EncReturned

\* C3 witness: the encoder has returned after downscaling at least once.
C3_Witness ==
    /\ encPc = "done"
    /\ encDims # targetSize(encIn.dims0, LongEdgeArg(encIn.rules, encIn.dims0))

LongEdge(d) == Max(d.width, d.height)

\* C12: when rules.maxLongEdge is set, every size level of the encoder,
\* from the initial dims on and through every downscale, has a longer side
\* of at most maxLongEdge, and so has the canvas of the encoding returned.
C12_LongEdgeRespected ==
    encIn.rules.maxLongEdge # 0 =>
        /\ LongEdge(encDims) <= encIn.rules.maxLongEdge
        /\ encPc = "done" =>
              /\ LongEdge(EncResultDims) <= encIn.rules.maxLongEdge
              /\ Max(encResult[1].outW, encResult[1].outH) <= encIn.rules.maxLongEdge

\* C12 witness: an image with a longer side above maxLongEdge was encoded.
C12_Witness ==
    /\ encPc = "done"
    /\ encIn.rules.maxLongEdge # 0
    /\ LongEdge(encIn.dims0) > encIn.rules.maxLongEdge
    /\ encIn.orientation = 6

\* C13: the width and the height of a size level are never larger than
\* those of the level before, nor than the decoded image's own.
C13_DimsNeverIncrease ==
    /\ encDims.width <= encPrev.width
    /\ encDims.height <= encPrev.height
    /\ encPrev.width <= encIn.dims0.width
    /\ encPrev.height <= encIn.dims0.height
    /\ encPc = "done" =>
          /\ encResult[1].width <= encIn.dims0.width
          /\ encResult[1].height <= encIn.dims0.height

\* C13 witness: the encoder has returned at a level below the one before,
\* which was itself below the decoded size.
C13_Witness ==
    /\ encPc = "done"
    /\ encDims.width < encPrev.width
    /\ encPrev.width < encIn.dims0.width

\* C14 as stated: at most MaxIter encode calls at every size level.
C14_AtMostEightCalls == encCalls <= MaxIter

\* C14 amended: at most MaxIter trial encodes at every size level, and one
\* more encode (at minQuality) only at the level where the search gives up
\* with no fitting trial: MaxIter + 1 calls there.
C14_EightTrialsPlusFallback ==
    /\ encIter <= MaxIter
    /\ encCalls \in {encIter, encIter + 1}
    /\ encCalls = encIter + 1 =>
          /\ encPc = "done"
          /\ encIter = MaxIter
          /\ encSearch.lastGood = <<>>
          /\ Converged(NextDims(encDims, encIn.rules), encDims)

\* C14 witness: the encoder has returned after MaxIter + 1 calls at a level.
C14_Witness ==
    /\ encPc = "done"
    /\ encCalls = MaxIter + 1

\* A step of the quality search: one trial at the current size level.
TrialStep == encPc = "search" /\ encIter' = encIter + 1

\* The trial of this step was recorded as lastGood.
TrialRecorded ==
    /\ encSearch'.lastGood # <<>>
    /\ encSearch'.lastGood # encSearch.lastGood
    /\ encSearch'.lastGood[1].q = TrialQuality(encSearch)

\* C23: a trial at quality q whose size is within maxBytes is recorded as
\* the current best and the next trial of the level is made at a higher
\* quality; a trial whose size exceeds maxBytes is followed by a trial at a
\* lower quality.
C23_SearchDirection ==
    [][TrialStep =>
          IF TrialRecorded
          THEN /\ WithinMaxBytes(encSearch'.lastGood[1].size, encIn.rules.maxBytes)
               /\ encIter' < MaxIter => TrialQuality(encSearch') > TrialQuality(encSearch)
          ELSE encIter' < MaxIter => TrialQuality(encSearch') < TrialQuality(encSearch)]_vars

\* The k-th of the 256 equal steps from minQuality to quality: every quality
\* the search can try is one of them, and the lowest it can reach is the first.
QualityGrid(rules, k) ==
    rules.minQuality + k * ((rules.quality - rules.minQuality) \div 256)

LowestQuality(rules) == QualityGrid(rules, 1)

\* The size of the backend's JPEG of the current dims at quality q.
SizeAt(q) == BackendSize(encIn.backend, "jpeg", encDims, q)

\* The encoded size does not decrease when the quality goes up.
SizeNonDecreasing ==
    \A k \in 0..255 :
        SizeAt(QualityGrid(encIn.rules, k)) <= SizeAt(QualityGrid(encIn.rules, k + 1))

\* C28: with an encoded size that is non-decreasing in quality, an image
\* whose encoding at the lowest quality the search can reach is within
\* maxBytes is returned at the dims it was given, not downscaled.
C28_NoNeedlessDownscale ==
    (/\ encPc = "done"
     /\ SizeNonDecreasing
     /\ WithinMaxBytes(SizeAt(LowestQuality(encIn.rules)), encIn.rules.maxBytes))
        => /\ encResult[1].width = encDims.width
           /\ encResult[1].height = encDims.height

\* C29: for an image of at least 1x1 and a maxLongEdge of at least 1, the
\* dims targetSize computes, and the dims of every later call of the
\* encoder, are at least 1x1.
C29_DimsAtLeastOne ==
    (/\ encIn.dims0.width >= 1
     /\ encIn.dims0.height >= 1
     /\ encIn.rules.maxLongEdge >= 1)
        => encDims.width >= 1 /\ encDims.height >= 1

\* C26: for orientation 6 or 8 and target dims w x h the canvas is h x w,
\* for orientation 3 it is w x h, and in each case the transform puts the
\* corners of the drawn w x h image exactly on the corners of the canvas.
C26_RotationFitsCanvas ==
    (encPc = "done" /\ encIn.orientation \in {3, 6, 8}) =>
        LET blob == encResult[1] IN
        /\ blob.outW = IF encIn.orientation = 3 THEN blob.width ELSE blob.height
        /\ blob.outH = IF encIn.orientation = 3 THEN blob.height ELSE blob.width
        /\ blob.drawn = Corners(blob.outW, blob.outH)

(***************************************************************************)
(* Claims about the jobs (Spec, SpecJobs).                                 *)
(***************************************************************************)
MsgsOf(j) == SelectSeq(posted, LAMBDA m : m.job = j)

Submitted(j) == j <= Len(plan) /\ jobs[j].pc # "none"

JobLevelError(m) == m.type = "error" /\ m.cand = 0

DonePosted(j) == \E x \in 1..Len(posted) : posted[x].job = j /\ posted[x].type = "done-stream"

DimsOf(f) == [width |-> f.width, height |-> f.height]

\* C1: an entry that needs no processing (needProcess false) is written to
\* the output archive with exactly the bytes of the input entry, and its
\* outcome is kept.
C1_UnprocessedKeptVerbatim ==
    \A j \in JobIds :
        \A x \in 1..Len(jobs[j].zip.files) :
            LET out == jobs[j].zip.files[x]
                f   == jobs[j].names[out.cand]
            IN  ~needProcess(f.bytes, DimsOf(f), plan[j].rules)
                    => /\ out.data = f.bytes
                       /\ \E y \in 1..Len(posted) :
                            /\ posted[y].job = j
                            /\ posted[y].cand = out.cand
                            /\ posted[y].type = "kept"

Rejected(j) ==
    /\ j <= Len(plan)
    /\ plan[j].archive.readable
    /\ Len(Candidates(plan[j].archive)) > plan[j].rules.maxCount

\* C4: a job with more candidates than rules.maxCount posts exactly one
\* job-level failure and nothing else: no zip-chunk, no done-stream, no
\* per-entry and no overall progress.
C4_OverCountRejected ==
    \A j \in JobIds :
        Rejected(j) =>
            /\ Len(MsgsOf(j)) <= 1
            /\ \A x \in 1..Len(MsgsOf(j)) : JobLevelError(MsgsOf(j)[x])
            /\ jobs[j].pc = "ended" => Len(MsgsOf(j)) = 1

\* C4 witness: a job with two candidates and maxCount = 1 has been rejected.
C4_Witness ==
    \E j \in JobIds :
        /\ Rejected(j)
        /\ jobs[j].pc = "ended"
        /\ Len(Candidates(plan[j].archive)) = 2

EntryMsgs(j) == SelectSeq(MsgsOf(j), LAMBDA m : m.cand > 0)

\* A step of the job's handler or of its archive writer is ready to run.
JobPending(j) == Running(j) \/ ZipAlive(j)

\* C5: whatever entries are skipped or fail to decode or encode, the job
\* posts no job-level (worker) failure for them, handles every candidate in
\* order (one per-entry message each, all of them once the handler has
\* returned), and is never stuck short of done-stream: until done-stream is
\* posted a step of the job is ready, unless the worker was terminated or
\* the archive writer failed.
C5_EntryFailuresIsolated ==
    \A j \in JobIds :
        jobs[j].opened =>
            /\ \A x \in 1..Len(MsgsOf(j)) :
                  JobLevelError(MsgsOf(j)[x]) => MsgsOf(j)[x].name # WorkerName
            /\ [x \in 1..Len(EntryMsgs(j)) |-> EntryMsgs(j)[x].cand]
                 = [x \in 1..Len(EntryMsgs(j)) |-> x]
            /\ jobs[j].pc = "ended" => Len(EntryMsgs(j)) = Len(jobs[j].names)
            /\ (DonePosted(j) \/ jobs[j].pc = "killed" \/ jobs[j].zip.dead
                    \/ JobPending(j))

\* C5 witness: a job has posted done-stream after an entry failure that was
\* followed by another candidate's outcome.
C5_Witness ==
    \E j \in JobIds :
        /\ DonePosted(j)
        /\ Len(EntryMsgs(j)) = 2
        /\ EntryMsgs(j)[1].type \in {"skip", "error"}

\* C6: every per-entry outcome message (kept, processed, skip or error) is
\* immediately followed by an overall-progress message of the same job.
C6_OutcomeThenOverall ==
    \A x \in 1..Len(posted) :
        posted[x].cand > 0 =>
            /\ x < Len(posted)
            /\ posted[x + 1].type = "overall"
            /\ posted[x + 1].job = posted[x].job

DoneCount(j) ==
    Cardinality({x \in 1..Len(MsgsOf(j)) : MsgsOf(j)[x].type = "done-stream"})

ZipperDrained(j) ==
    /\ jobs[j].pc = "ended"
    /\ jobs[j].opened
    /\ ~jobs[j].zip.dead
    /\ jobs[j].zip.flushed = Len(jobs[j].zip.files)

\* C7: a job posts done-stream at most once, as the last message of the
\* job, and a job whose writer has finished without error has posted it.
C7_DoneOnceAndLast ==
    \A j \in JobIds :
        /\ DoneCount(j) <= 1
        /\ \A x \in 1..Len(MsgsOf(j)) :
              MsgsOf(j)[x].type = "done-stream" => x = Len(MsgsOf(j))
        /\ ZipperDrained(j) => DoneCount(j) = 1

\* C7 witness: a job has posted done-stream after the chunks of two files.
C7_Witness ==
    \E j \in JobIds :
        /\ DonePosted(j)
        /\ jobs[j].zip.flushed = 2

\* C8: once a job-level failure has been posted for a job, no done-stream
\* and no zip-chunk of that job follows.
C8_FailureIsTerminal ==
    \A j \in JobIds :
        \A x, y \in 1..Len(MsgsOf(j)) :
            (x < y /\ JobLevelError(MsgsOf(j)[x]))
                => MsgsOf(j)[y].type \notin {"done-stream", "zip-chunk"}

\* C8 witness: the archive writer has failed after a chunk was posted, and
\* the job has run to the end of its handler.
C8_Witness ==
    \E j \in JobIds :
        /\ jobs[j].zip.dead
        /\ jobs[j].zip.flushed > 0
        /\ jobs[j].pc = "ended"
        /\ JobLevelError(MsgsOf(j)[Len(MsgsOf(j))])

Terminal(m) == m.type = "done-stream" \/ JobLevelError(m)

\* C9: in one worker no message of a job is posted before the terminal
\* message (done-stream or job-level failure) of a job that posted earlier.
C9_OneJobAtATime ==
    \A x, y \in 1..Len(posted) :
        (/\ x < y
         /\ posted[x].job # posted[y].job
         /\ jobs[posted[x].job].worker = jobs[posted[y].job].worker)
            => \E t \in 1..(y - 1) :
                  posted[t].job = posted[x].job /\ Terminal(posted[t])

FileChunksFor(j, k) ==
    {x \in 1..Len(posted) :
        /\ posted[x].job = j
        /\ posted[x].type = "zip-chunk"
        /\ posted[x].chunk.kind = "file"
        /\ posted[x].chunk.file.cand = k}

OutcomesFor(j, k) ==
    {x \in 1..Len(posted) : posted[x].job = j /\ posted[x].cand = k}

\* C10: when a job has posted done-stream, every candidate with a kept or
\* processed outcome has exactly one entry in the archive posted, under the
\* outcome's name, and every candidate with a skip or error outcome has none.
C10_OutcomesMatchArchive ==
    \A j \in JobIds :
        DonePosted(j) =>
            \A k \in 1..Len(jobs[j].names) :
                /\ Cardinality(OutcomesFor(j, k)) = 1
                /\ \A x \in OutcomesFor(j, k) :
                      IF posted[x].type \in {"kept", "processed"}
                      THEN /\ Cardinality(FileChunksFor(j, k)) = 1
                           /\ \A c \in FileChunksFor(j, k) :
                                 posted[c].chunk.file.name = posted[x].name
                      ELSE FileChunksFor(j, k) = {}

\* C10 witness: a finished job with one written entry and one failed entry.
C10_Witness ==
    \E j \in JobIds :
        /\ DonePosted(j)
        /\ Len(jobs[j].names) = 2
        /\ \E x \in OutcomesFor(j, 1) : posted[x].type \in {"skip", "error"}
        /\ \E x \in OutcomesFor(j, 2) : posted[x].type \in {"kept", "processed"}

\* The sanitized names of the job's candidates.
SanitizedNames(j) ==
    {sanitizeName(jobs[j].names[k].name) : k \in 1..Len(jobs[j].names)}

\* C11 as stated: every entry name written to the output archive is the
\* sanitized name of some candidate of the job.
C11_NamesAreSanitized ==
    \A j \in JobIds :
        \A x \in 1..Len(jobs[j].zip.files) :
            jobs[j].zip.files[x].name \in SanitizedNames(j)

\* C11 amended: every entry name written to the output archive is the
\* sanitized name of the entry's own candidate, with a final .png (in any
\* case) replaced by .jpg when the entry is written as JPEG.
C11_NamesSanitizedOrRenamed ==
    \A j \in JobIds :
        \A x \in 1..Len(jobs[j].zip.files) :
            LET out    == jobs[j].zip.files[x]
                f      == jobs[j].names[out.cand]
                name   == sanitizeName(f.name)
                outFmt == OutFmt(detectImageType(name, f.bytes), plan[j].rules.format)
            IN  /\ \A y \in 1..Len(out.name) : out.name[y] \in SafeChars
                /\ IF outFmt = "jpeg" /\ isPNGExt(name)
                   THEN /\ Len(out.name) = Len(name)
                        /\ SubSeq(out.name, 1, Len(name) - 4) = SubSeq(name, 1, Len(name) - 4)
                        /\ EndsWith(out.name, <<".", "j", "p", "g">>)
                   ELSE out.name = name

\* C11 witness: an entry was written under a name that is no candidate's
\* sanitized name, for a candidate whose raw name needed sanitizing.
C11_Witness ==
    \E j \in JobIds :
        \E x \in 1..Len(jobs[j].zip.files) :
            /\ jobs[j].zip.files[x].name \notin SanitizedNames(j)
            /\ sanitizeName(jobs[j].names[jobs[j].zip.files[x].cand].name)
                  # jobs[j].names[jobs[j].zip.files[x].cand].name

\* C15: an outcome is kept only if the written output has the format of
\* the input, was encoded at the decoded image's own dimensions and has no
\* fewer bytes than the input; any format switch, dimension reduction or
\* byte reduction is reported processed.
C15_KeptMeansUntouched ==
    \A x \in 1..Len(posted) :
        posted[x].type = "kept" =>
            LET m    == posted[x]
                f    == jobs[m.job].names[m.cand]
                blob == FinalBlob(f, f.orientation, plan[m.job].rules)
            IN  /\ m.outFmt = m.inFmt
                /\ blob.width = f.width
                /\ blob.height = f.height
                /\ m.size >= m.originalSize

\* The per-entry messages about candidates of job j classified as png.
PngOutcomes ==
    {x \in 1..Len(posted) :
        /\ posted[x].cand > 0
        /\ LET f == jobs[posted[x].job].names[posted[x].cand]
           IN  detectImageType(sanitizeName(f.name), f.bytes) = "png"}

DotJpg == <<".", "j", "p", "g">>

Unreadable(j) == j <= Len(plan) /\ ~plan[j].archive.readable

\* C20: a job whose archive cannot be opened or parsed posts exactly one
\* job-level (worker) error and nothing else: no overall or per-entry
\* progress, no zip-chunk, no done-stream.
C20_UnreadableArchiveFails ==
    \A j \in JobIds :
        Unreadable(j) =>
            /\ Len(MsgsOf(j)) <= 1
            /\ \A x \in 1..Len(MsgsOf(j)) :
                  JobLevelError(MsgsOf(j)[x]) /\ MsgsOf(j)[x].name = WorkerName
            /\ jobs[j].pc = "ended" => Len(MsgsOf(j)) = 1
            /\ ~jobs[j].opened

\* C20 witness: the handler has returned for an archive it could not read,
\* and the host has received the failure.
C20_Witness ==
    \E j \in JobIds :
        /\ Unreadable(j)
        /\ jobs[j].pc = "ended"
        /\ recv = 1
        /\ Len(list) = 1

\* C21: entries are added to the archive writer in the order of their
\* candidates, their chunks are posted in that order, and zipper.end() is
\* called only when every candidate has been handled.
C21_EntriesInScanOrder ==
    \A j \in JobIds :
        /\ \A x, y \in 1..Len(jobs[j].zip.files) :
              x < y => jobs[j].zip.files[x].cand < jobs[j].zip.files[y].cand
        /\ \A x, y \in 1..Len(posted) :
              (/\ x < y
               /\ posted[x].job = j /\ posted[y].job = j
               /\ posted[x].type = "zip-chunk" /\ posted[y].type = "zip-chunk"
               /\ posted[x].chunk.kind = "file" /\ posted[y].chunk.kind = "file")
                  => posted[x].chunk.file.cand < posted[y].chunk.file.cand
        /\ jobs[j].zip.ended =>
              /\ jobs[j].k = Len(jobs[j].names) + 1
              /\ Len(EntryMsgs(j)) = Len(jobs[j].names)

\* C21 witness: the writer was ended after two entries were added, and both
\* chunks were posted.
C21_Witness ==
    \E j \in JobIds :
        /\ jobs[j].zip.ended
        /\ Len(jobs[j].zip.files) = 2
        /\ jobs[j].zip.flushed = 2

OverallMsgs(j) == SelectSeq(MsgsOf(j), LAMBDA m : m.type = "overall")

\* C24: the overall-progress messages of a job start with
\* (processed = 0, total = candidate count), as the job's first message;
\* total is the same in all of them, processed grows by exactly 1 from
\* each to the next and never exceeds total.
C24_OverallCountsUp ==
    \A j \in JobIds :
        LET ov == OverallMsgs(j) IN
        IF jobs[j].opened
        THEN /\ Len(ov) >= 1
             /\ MsgsOf(j)[1] = ov[1]
             /\ \A x \in 1..Len(ov) :
                   /\ ov[x].total = Len(Candidates(plan[j].archive))
                   /\ ov[x].processed = x - 1
                   /\ ov[x].processed <= ov[x].total
        ELSE ov = <<>>

\* C24 witness: a job of two candidates has counted up to (2, 2).
C24_Witness ==
    \E j \in JobIds :
        /\ jobs[j].pc = "ended"
        /\ Len(jobs[j].names) = 2
        /\ Len(OverallMsgs(j)) = 3

\* An entry the filtering is to remove: a directory, an entry with a path
\* segment that starts with a dot, an entry under the OS-metadata
\* directory, or a name that does not end in .jpg, .jpeg or .png.
Excluded(n) ==
    \/ EndsWith(n, <<"/">>)
    \/ \E x \in 1..Len(Split(n, "/")) : StartsWith(Split(n, "/")[x], <<".">>)
    \/ StartsWith(n, <<"_", "_", "M", "A", "C", "O", "S", "X", "/">>)
    \/ ~(isJPEGExt(n) \/ isPNGExt(n))

Kept(archive) == SelectSeq(archive.entries, LAMBDA f : ~Excluded(f.name))

\* C27: a job holds at most one decoded bitmap; none is open while the next
\* entry is read or decoded, after an entry that was encoded and after one
\* whose encode failed alike, and none is open once the loop has ended.
C27_OneBitmapAtATime ==
    \A j \in JobIds :
        /\ jobs[j].bitmaps <= 1
        /\ jobs[j].pc \in {"exif", "decode", "ended"} => jobs[j].bitmaps = 0
        /\ jobs[j].pc = "encode" => jobs[j].bitmaps = 1
        /\ jobs[j].zip.ended => jobs[j].bitmaps = 0

\* A job has ended after an entry whose encode failed and a later entry that
\* was decoded and encoded.
C27_Witness ==
    \E j \in JobIds :
        /\ jobs[j].pc = "ended"
        /\ jobs[j].zip.ended
        /\ \E x, y \in 1..Len(posted) :
            /\ x < y
            /\ posted[x].job = j /\ posted[y].job = j
            /\ posted[x].type = "error" /\ posted[x].cand > 0
            /\ posted[x].reason = "process"
            /\ posted[y].type \in {"processed", "kept"}

\* C25: directories, hidden and OS-metadata entries, and entries whose name
\* does not end in an image extension are never candidates: no per-entry
\* message and no archive entry is about them, and they count neither in
\* the total of the overall messages nor against maxCount.
C25_FilteredNeverCandidates ==
    \A j \in JobIds :
        /\ \A k \in 1..Len(jobs[j].names) : ~Excluded(jobs[j].names[k].name)
        /\ \A x \in 1..Len(OverallMsgs(j)) :
              OverallMsgs(j)[x].total = Len(Kept(plan[j].archive))
        /\ \A x \in 1..Len(MsgsOf(j)) :
              (JobLevelError(MsgsOf(j)[x]) /\ MsgsOf(j)[x].reason = "maxCount")
                  => Len(Kept(plan[j].archive)) > plan[j].rules.maxCount

(***************************************************************************)
(* Claims about the classifier (SpecDetect).                               *)
(***************************************************************************)
JpegFramed(bytes) ==
    /\ Len(bytes) >= 2
    /\ SubSeq(bytes, 1, 2) = <<255, 216>>
    /\ SubSeq(bytes, Len(bytes) - 1, Len(bytes)) = <<255, 217>>

\* C17: for bytes that begin with FF D8 and end with FF D9, and any file
\* name, detectImageType returns jpeg.
C17_JpegMagicWins ==
    (detOut # <<>> /\ JpegFramed(detIn.bytes)) => detOut[1] = "jpeg"

\* C17 witness: bytes framed as JPEG under a .png name were classified jpeg.
C17_Witness ==
    /\ detOut = <<"jpeg">>
    /\ JpegFramed(detIn.bytes)
    /\ isPNGExt(detIn.name)

PngSigned(bytes) ==
    /\ Len(bytes) >= 8
    /\ SubSeq(bytes, 1, 8) = PNGSignature

\* C18: for bytes that begin with the 8-byte PNG signature, of any length
\* from 8 on, and any file name, detectImageType returns png.
C18_PngMagicWins ==
    (detOut # <<>> /\ PngSigned(detIn.bytes)) => detOut[1] = "png"

(***************************************************************************)
(* Claims about the host (Spec, SpecJobs).                                 *)
(***************************************************************************)
\* The host's onmessage takes a done-stream message in this step.
ReceivesDone ==
    /\ recv < Len(posted)
    /\ recv' = recv + 1
    /\ workerRef' = workerRef
    /\ posted[recv + 1].type = "done-stream"

\* The non-empty zip-chunk payloads among the messages from+1 .. to.
ChunksBetween(from, to) ==
    LET got == SelectSeq(SubSeq(posted, from + 1, to),
                         LAMBDA m : m.type = "zip-chunk" /\ m.chunk.len > 0)
    IN  [x \in 1..Len(got) |-> got[x].chunk]

\* C19: when the host receives the done-stream of a job, the output it
\* publishes is the sequence, in arrival order, of exactly the non-empty
\* zip-chunk payloads received since processZip started that job, and the
\* chunk buffer is empty afterwards.
C19_OutputIsChunksSinceStart ==
    [][ReceivesDone =>
          /\ output' = <<ChunksBetween(jobs[posted[recv + 1].job].since, recv)>>
          /\ chunksRef' = <<>>]_vars

\* Message x reached the host's onmessage (was not dropped by terminate).
Received(x) ==
    /\ x <= recv
    /\ jobs[posted[x].job].pc = "killed" => x <= jobs[posted[x].job].cut

DoneReceived(j) ==
    \E x \in 1..Len(posted) :
        posted[x].job = j /\ posted[x].type = "done-stream" /\ Received(x)

\* Job j was cancelled while running: before its done-stream was received.
CancelledRunning(j) == jobs[j].pc = "killed" /\ ~DoneReceived(j)

\* s is the end of t.
IsSuffix(s, t) == Len(s) <= Len(t) /\ SubSeq(t, Len(t) - Len(s) + 1, Len(t)) = s

\* The number of messages received when the chunk buffer was last reset.
LastReset ==
    LET started == {j \in JobIds : jobs[j].pc # "none"}
    IN  IF started = {} THEN 0
        ELSE jobs[CHOOSE j \in started : \A i \in started : i <= j].since

\* The host's onmessage takes the next message in this step.
ReceivesNext ==
    /\ recv < Len(posted)
    /\ recv' = recv + 1
    /\ workerRef' = workerRef

\* After a running job is cancelled the output stays unset until a job
\* started later completes.
C22_OutputUnsetAfterCancel ==
    \A j \in JobIds :
        CancelledRunning(j) =>
            \/ output = <<>>
            \/ \E i \in JobIds : i > j /\ DoneReceived(i)

\* No message of a cancelled job changes the host's state after the cancel.
C22_NoMessageAfterCancel ==
    ReceivesNext => jobs[posted[recv + 1].job].pc # "killed"

\* No chunk received from a cancelled job is in an output published later.
C22_NoCancelledChunkInOutput ==
    ReceivesDone =>
        /\ IsSuffix(output'[1], ChunksBetween(LastReset, recv))
        /\ \A x \in (LastReset + 1)..recv : jobs[posted[x].job].pc # "killed"

\* C22: after the host cancels a running job no partial result is
\* delivered: the output stays unset until a later job completes, no message
\* of the cancelled job changes the host's state any more, and no chunk
\* received from the cancelled job is in the output of a later job.
C22_CancelDeliversNothing ==
    /\ []C22_OutputUnsetAfterCancel
    /\ [][C22_NoMessageAfterCancel /\ C22_NoCancelledChunkInOutput]_vars

\* Job j has posted a job-level failure.
JobFailed(j) ==
    \E x \in 1..Len(posted) : posted[x].job = j /\ JobLevelError(posted[x])

\* Job j is over for the host: the handler has ended with done-stream or a
\* job-level failure, the writer has nothing left to hand over, and every
\* message is delivered.
JobOver(j) ==
    /\ jobs[j].pc = "ended"
    /\ ~JobPending(j)
    /\ recv = Len(posted)
    /\ DonePosted(j) \/ JobFailed(j)

\* C30: once a submitted job is over, by done-stream or by a job-level
\* failure (maxCount, unreadable archive, writer error), the host is no
\* longer busy, and after a job-level failure its error state is set.
C30_HostLeavesBusy ==
    \A j \in JobIds :
        JobOver(j) => /\ ~busy
                      /\ JobFailed(j) => hostError

\* Message m is of an earlier job: processZip has been called again since.
OfEarlierJob(m) == \E j \in JobIds : j > m.job /\ jobs[j].pc # "none"

\* C31: a message of an earlier job, received after processZip was called
\* again without a cancel in between, changes neither the chunk buffer nor
\* the result list, the progress or the output of the newer job.
C31_EarlierJobIgnored ==
    [][(ReceivesNext /\ OfEarlierJob(posted[recv + 1]))
          => UNCHANGED <<chunksRef, list, progress, output>>]_vars

\* The entries of job j's archive that detectImageType classifies as jpeg or png.
ClassifiedEntries(j) ==
    {x \in 1..Len(plan[j].archive.entries) :
        LET f == plan[j].archive.entries[x]
        IN  detectImageType(sanitizeName(f.name), f.bytes) # "none"}

\* Job j was rejected for exceeding maxCount.
OverCountPosted(j) ==
    \E x \in 1..Len(posted) :
        /\ posted[x].job = j
        /\ JobLevelError(posted[x])
        /\ posted[x].reason = "maxCount"

\* C32: a job whose archive has at most maxCount entries that classify as
\* jpeg or png is never rejected for exceeding the count, whatever other
\* image-named entries it has.
C32_CountsClassifiedOnly ==
    \A j \in JobIds :
        (/\ j <= Len(plan)
         /\ plan[j].archive.readable
         /\ Cardinality(ClassifiedEntries(j)) <= plan[j].rules.maxCount)
            => ~OverCountPosted(j)
====
